---- MODULE Spec2Model ----
(***************************************************************************)
(* Model of the payments engine: the transaction-application state machine *)
(* of src/engine.rs over the in-memory account map and ledger of           *)
(* src/output_repository.rs, the CSV reader of src/ingestion.rs and the    *)
(* fixed-point type of src/domain/money.rs.  Amounts are integers (minor   *)
(* units).                                                                 *)
(***************************************************************************)
EXTENDS Integers, Sequences, FiniteSets, TLC

(* ---------------------------- bounds ----------------------------------- *)
MaxItems == 4
MaxStreamLen == 2
MaxRows == 2
MaxStreamCalls == 2
MaxClient == 2
MaxTx == 1
MaxNegAmount == 0
MaxAmount == 1
BackingBits == 16
WideBits == 24
MaxValue == 150
MaxScale == 12
MaxTextLen == 3

Clients == 1..MaxClient
TxIds == 1..MaxTx
Amounts == -MaxNegAmount..MaxAmount

VARIABLES accounts, ledger, pc, consumed, prev, last,
          source, reader, streams, delivered,
          call, ret

\* the engine's variables and the CSV reader's variables
engine_vars == <<accounts, ledger, pc, consumed, prev, last>>
ingestion_vars == <<source, reader, streams, delivered>>
\* the last call of a function of domain/money.rs and what it returned
money_vars == <<call, ret>>

vars == <<accounts, ledger, pc, consumed, prev, last,
          source, reader, streams, delivered,
          call, ret>>

(* ----------------------- domain/transaction.rs ------------------------- *)
MonetaryKinds == {"Deposit", "Withdrawal"}
ReferenceKinds == {"Dispute", "Resolve", "Chargeback"}

\* amount is carried by Deposit/Withdrawal only; it is 0 for the other kinds
Transaction(kind, client_id, transaction_id, amount) ==
    [kind |-> kind, client_id |-> client_id,
     transaction_id |-> transaction_id, amount |-> amount]

\* placeholders of the history: no item yet, and an Err(e) item
NoItem == Transaction("None", 0, 0, 0)
IngestErrorItem == Transaction("IngestError", 0, 0, 0)

(* ------------------------- domain/account.rs --------------------------- *)
Account_new == [available |-> 0, held |-> 0, total |-> 0, locked |-> FALSE]

sync_total_stale(account) == account

sync_total(account) ==
    [account EXCEPT !.total = account.available + account.held]

(* ------------------------ output_repository.rs ------------------------- *)
StdOutOutput_new == [accounts |-> <<>>, ledger |-> <<>>]

get_or_create_account_reset(repo, client_id) ==
    [repo EXCEPT !.accounts =
        (client_id :> Account_new) @@ @]

get_or_create_account(repo, client_id) ==
    IF client_id \in DOMAIN repo.accounts
    THEN repo
    ELSE [repo EXCEPT !.accounts = @ @@ (client_id :> Account_new)]

report_transaction_overwrite(repo, transaction_id, transaction) ==
    [repo |-> [repo EXCEPT !.ledger =
                 (transaction_id :> [tx |-> transaction, disputed |-> FALSE]) @@ @],
     res |-> "Ok"]

report_transaction(repo, transaction_id, transaction) ==
    IF transaction_id \notin DOMAIN repo.ledger
    THEN [repo |-> [repo EXCEPT !.ledger =
                      @ @@ (transaction_id :> [tx |-> transaction, disputed |-> FALSE])],
          res |-> "Ok"]
    ELSE [repo |-> repo, res |-> "DuplicateTransactionId"]

\* TRUE iff the ledger has an entry for the id (get_transaction is Some)
has_transaction(repo, transaction_id) == transaction_id \in DOMAIN repo.ledger

get_transaction(repo, transaction_id) == repo.ledger[transaction_id].tx

mark_transaction_disputed(repo, transaction_id) ==
    IF transaction_id \in DOMAIN repo.ledger
    THEN [repo EXCEPT !.ledger[transaction_id].disputed = TRUE]
    ELSE repo

mark_transaction_resolved_keep(repo, transaction_id) == repo

mark_transaction_resolved(repo, transaction_id) ==
    IF transaction_id \in DOMAIN repo.ledger
    THEN [repo EXCEPT !.ledger[transaction_id].disputed = FALSE]
    ELSE repo

has_dispute_any(repo, transaction_id) == transaction_id \in DOMAIN repo.ledger

has_dispute(repo, transaction_id) ==
    IF transaction_id \in DOMAIN repo.ledger
    THEN repo.ledger[transaction_id].disputed
    ELSE FALSE

(* ------------------------------ engine.rs ------------------------------ *)
Ok(repo) == [repo |-> repo, res |-> "Ok"]
Err(repo, e) == [repo |-> repo, res |-> e]

deposit_subtract(repo, tx, amount) ==
    LET r == report_transaction(repo, tx.transaction_id, tx) IN
    IF r.res = "Ok"
    THEN LET r1 == get_or_create_account(r.repo, tx.client_id)
             a1 == [r1.accounts[tx.client_id] EXCEPT !.available = @ - amount]
         IN  Ok([r1 EXCEPT !.accounts[tx.client_id] = sync_total(a1)])
    ELSE r

deposit(repo, tx, amount) ==
    LET r == report_transaction(repo, tx.transaction_id, tx) IN
    IF r.res = "Ok"
    THEN LET r1 == get_or_create_account(r.repo, tx.client_id)
             a1 == [r1.accounts[tx.client_id] EXCEPT !.available = @ + amount]
         IN  Ok([r1 EXCEPT !.accounts[tx.client_id] = sync_total(a1)])
    ELSE r

withraw_unchecked(repo, tx, amount) ==
    LET r == report_transaction(repo, tx.transaction_id, tx) IN
    IF r.res = "Ok"
    THEN LET r1 == get_or_create_account(r.repo, tx.client_id)
             a1 == [r1.accounts[tx.client_id] EXCEPT !.available = @ - amount]
         IN  Ok([r1 EXCEPT !.accounts[tx.client_id] = sync_total(a1)])
    ELSE r

withraw(repo, tx, amount) ==
    LET r == report_transaction(repo, tx.transaction_id, tx) IN
    IF r.res = "Ok"
    THEN LET r1 == get_or_create_account(r.repo, tx.client_id)
             account == r1.accounts[tx.client_id]
         IN  IF account.available < amount
             THEN Err(r1, "InsufficientFunds")
             ELSE LET a1 == [account EXCEPT !.available = @ - amount]
                  IN  Ok([r1 EXCEPT !.accounts[tx.client_id] = sync_total(a1)])
    ELSE r

dispute_any_client(repo, tx) ==
    IF ~has_transaction(repo, tx.transaction_id)
    THEN Err(repo, "UnknownReferencedTransaction")
    ELSE LET disputed_tx == get_transaction(repo, tx.transaction_id) IN
         IF disputed_tx.kind \in MonetaryKinds
         THEN LET r1 == mark_transaction_disputed(repo, tx.transaction_id)
                  r2 == get_or_create_account(r1, tx.client_id)
              IN  Ok([r2 EXCEPT !.accounts[tx.client_id] =
                        [@ EXCEPT !.available = @ - disputed_tx.amount,
                                  !.held = @ + disputed_tx.amount]])
         ELSE Ok(repo)

dispute_no_hold(repo, tx) ==
    IF ~has_transaction(repo, tx.transaction_id)
    THEN Err(repo, "UnknownReferencedTransaction")
    ELSE LET disputed_tx == get_transaction(repo, tx.transaction_id) IN
         IF disputed_tx.client_id # tx.client_id
         THEN Err(repo, "ClientMismatch")
         ELSE IF disputed_tx.kind \in MonetaryKinds
         THEN LET r1 == mark_transaction_disputed(repo, tx.transaction_id)
                  r2 == get_or_create_account(r1, tx.client_id)
              IN  Ok([r2 EXCEPT !.accounts[tx.client_id] =
                        sync_total([@ EXCEPT !.available = @ - disputed_tx.amount])])
         ELSE Ok(repo)

dispute(repo, tx) ==
    IF ~has_transaction(repo, tx.transaction_id)
    THEN Err(repo, "UnknownReferencedTransaction")
    ELSE LET disputed_tx == get_transaction(repo, tx.transaction_id) IN
         IF disputed_tx.client_id # tx.client_id
         THEN Err(repo, "ClientMismatch")
         ELSE IF disputed_tx.kind \in MonetaryKinds
         THEN LET r1 == mark_transaction_disputed(repo, tx.transaction_id)
                  r2 == get_or_create_account(r1, tx.client_id)
              IN  Ok([r2 EXCEPT !.accounts[tx.client_id] =
                        [@ EXCEPT !.available = @ - disputed_tx.amount,
                                  !.held = @ + disputed_tx.amount]])
         ELSE Ok(repo)

resolve(repo, tx) ==
    IF ~has_dispute(repo, tx.transaction_id)
    THEN Err(repo, "NotDisputed")
    ELSE IF ~has_transaction(repo, tx.transaction_id)
    THEN Err(repo, "UnknownReferencedTransaction")
    ELSE LET resolved_tx == get_transaction(repo, tx.transaction_id) IN
         IF resolved_tx.client_id # tx.client_id
         THEN Err(repo, "ClientMismatch")
         ELSE IF resolved_tx.kind \in MonetaryKinds
         THEN LET r1 == mark_transaction_resolved(repo, tx.transaction_id)
                  r2 == get_or_create_account(r1, tx.client_id)
              IN  Ok([r2 EXCEPT !.accounts[tx.client_id] =
                        [@ EXCEPT !.available = @ + resolved_tx.amount,
                                  !.held = @ - resolved_tx.amount]])
         ELSE Ok(repo)

chargeback_clawback(repo, tx) ==
    IF ~has_dispute(repo, tx.transaction_id)
    THEN Err(repo, "NotDisputed")
    ELSE IF ~has_transaction(repo, tx.transaction_id)
    THEN Err(repo, "UnknownReferencedTransaction")
    ELSE LET chargeback_tx == get_transaction(repo, tx.transaction_id) IN
         IF chargeback_tx.client_id # tx.client_id
         THEN Err(repo, "ClientMismatch")
         ELSE IF chargeback_tx.kind \in MonetaryKinds
         THEN LET r2 == get_or_create_account(repo, tx.client_id)
              IN  Ok([r2 EXCEPT !.accounts[tx.client_id] =
                        sync_total([@ EXCEPT !.held = @ - chargeback_tx.amount,
                                             !.locked = TRUE])])
         ELSE Ok(repo)

chargeback(repo, tx) ==
    IF ~has_dispute(repo, tx.transaction_id)
    THEN Err(repo, "NotDisputed")
    ELSE IF ~has_transaction(repo, tx.transaction_id)
    THEN Err(repo, "UnknownReferencedTransaction")
    ELSE LET chargeback_tx == get_transaction(repo, tx.transaction_id) IN
         IF chargeback_tx.client_id # tx.client_id
         THEN Err(repo, "ClientMismatch")
         ELSE IF chargeback_tx.kind \in MonetaryKinds
         THEN LET r2 == get_or_create_account(repo, tx.client_id)
              IN  Ok([r2 EXCEPT !.accounts[tx.client_id] =
                        [@ EXCEPT !.available = @ + chargeback_tx.amount,
                                  !.held = @ - chargeback_tx.amount,
                                  !.locked = TRUE]])
         ELSE Ok(repo)

dispatch(repo, tx) ==
    CASE tx.kind = "Deposit"    -> deposit(repo, tx, tx.amount)
      [] tx.kind = "Withdrawal" -> withraw(repo, tx, tx.amount)
      [] tx.kind = "Dispute"    -> dispute(repo, tx)
      [] tx.kind = "Resolve"    -> resolve(repo, tx)
      [] tx.kind = "Chargeback" -> chargeback(repo, tx)

apply_transaction_no_lock_check(repo, tx) ==
    dispatch(get_or_create_account(repo, tx.client_id), tx)

apply_transaction(repo, tx) ==
    LET r0 == get_or_create_account(repo, tx.client_id) IN
    IF r0.accounts[tx.client_id].locked
    THEN Err(r0, "AccountLocked")
    ELSE dispatch(r0, tx)

(* ----------------------------- ingestion.rs ---------------------------- *)
\* Option<Decimal> of CsvRow::amount
NoAmount == [some |-> FALSE, value |-> 0]
SomeAmount(a) == [some |-> TRUE, value |-> a]

\* the type column as read from the file, and row.kind.trim().to_ascii_lowercase()
RawKinds == {"deposit", "withdrawal", "dispute", "resolve", "chargeback",
             " Deposit", "foo"}

TrimLower(kind) == IF kind = " Deposit" THEN "deposit" ELSE kind

\* what the CSV deserializer yields for a line: a CsvRow, or an error
CsvRow(kind, client, tx, amount) ==
    [de_ok |-> TRUE, kind |-> kind, client |-> client, tx |-> tx, amount |-> amount]

DeserializeError == [de_ok |-> FALSE, kind |-> "", client |-> 0, tx |-> 0, amount |-> NoAmount]

CsvRecords ==
    {CsvRow(k, 1, 2, a) : k \in RawKinds,
                          a \in {NoAmount, SomeAmount(-1), SomeAmount(1)}}
    \cup {DeserializeError}

\* Result<Transaction, Error> items of the stream
OkItem(tx) == [ok |-> TRUE, tx |-> tx, err |-> ""]
ErrItem(e) == [ok |-> FALSE, tx |-> NoItem, err |-> e]

try_from_ignore_amount(row) ==
    LET k == TrimLower(row.kind) IN
    CASE k = "deposit" /\ row.amount.some ->
            OkItem(Transaction("Deposit", row.client, row.tx, row.amount.value))
      [] k = "withdrawal" /\ row.amount.some ->
            OkItem(Transaction("Withdrawal", row.client, row.tx, row.amount.value))
      [] k = "dispute" -> OkItem(Transaction("Dispute", row.client, row.tx, 0))
      [] k = "resolve" -> OkItem(Transaction("Resolve", row.client, row.tx, 0))
      [] k = "chargeback" -> OkItem(Transaction("Chargeback", row.client, row.tx, 0))
      [] OTHER -> ErrItem("Invalid transaction type")

try_from(row) ==
    LET k == TrimLower(row.kind) IN
    CASE k = "deposit" /\ row.amount.some ->
            OkItem(Transaction("Deposit", row.client, row.tx, row.amount.value))
      [] k = "withdrawal" /\ row.amount.some ->
            OkItem(Transaction("Withdrawal", row.client, row.tx, row.amount.value))
      [] k = "dispute" /\ ~row.amount.some ->
            OkItem(Transaction("Dispute", row.client, row.tx, 0))
      [] k = "resolve" /\ ~row.amount.some ->
            OkItem(Transaction("Resolve", row.client, row.tx, 0))
      [] k = "chargeback" /\ ~row.amount.some ->
            OkItem(Transaction("Chargeback", row.client, row.tx, 0))
      [] OTHER -> ErrItem("Invalid transaction type")

\* the closure mapped over into_deserialize in CsvReader::stream
map_row(row_res) ==
    IF row_res.de_ok THEN try_from(row_res) ELSE ErrItem("CSV deserialization error")

\* CsvReader.reader: Option<csv::Reader>, the reader holding the unread lines
NoReader == [some |-> FALSE, rows |-> <<>>]
SomeReader(rows) == [some |-> TRUE, rows |-> rows]

\* self.reader.take(): the value taken and what is left in the field
take_keep(r) == [taken |-> r, left |-> r]

take(r) == [taken |-> r, left |-> NoReader]

(* ---------------------------- domain/money.rs -------------------------- *)
\* Money(i64) and the i128 intermediates.  The model checker's integers are
\* 32-bit, so the two widths are scaled down: the backing integer of Money
\* (i64 in the source) has BackingBits bits and the intermediate type (i128
\* in the source) has WideBits bits.  SCALE and TARGET_DECIMALS are the
\* source's.
i64_MIN == -(2 ^ (BackingBits - 1))
i64_MAX == 2 ^ (BackingBits - 1) - 1
i128_MIN == -(2 ^ (WideBits - 1))
i128_MAX == 2 ^ (WideBits - 1) - 1

SCALE == 10000
TARGET_DECIMALS == 4

\* integer division and remainder of Rust: truncated toward zero, the
\* remainder has the sign of the dividend (d > 0)
TruncDiv(n, d) == IF n >= 0 THEN n \div d ELSE -((-n) \div d)
TruncRem(n, d) == n - d * TruncDiv(n, d)

Abs(n) == IF n < 0 THEN -n ELSE n

\* two's-complement wrap-around of an out-of-range result to either width
wrap_i64(n) == ((n - i64_MIN) % (2 ^ BackingBits)) + i64_MIN
wrap_i128(n) == ((n - i128_MIN) % (2 ^ WideBits)) + i128_MIN

fits_i64(n) == n >= i64_MIN /\ n <= i64_MAX
fits_i128(n) == n >= i128_MIN /\ n <= i128_MAX

\* Option<Money>, and a panic of the call
\* wrapped tells that an unchecked operation wrapped around on the way
Some(minor) == [tag |-> "Some", value |-> minor, text |-> <<>>, wrapped |-> FALSE]
SomeWrapped(minor) == [tag |-> "Some", value |-> minor, text |-> <<>>, wrapped |-> TRUE]
None == [tag |-> "None", value |-> 0, text |-> <<>>, wrapped |-> FALSE]
NoneWrapped == [tag |-> "None", value |-> 0, text |-> <<>>, wrapped |-> TRUE]
Panic == [tag |-> "Panic", value |-> 0, text |-> <<>>, wrapped |-> TRUE]
\* the text written by Display
Text(s, w) == [tag |-> "Text", value |-> 0, text |-> s, wrapped |-> w]

\* an i128 result of unchecked arithmetic: with overflow checks (debug
\* profile) an overflow panics, without them (release profile) it wraps
Wide(v) == [panic |-> FALSE, v |-> v, wrapped |-> FALSE]
WidePanic == [panic |-> TRUE, v |-> 0, wrapped |-> TRUE]
Unchecked(exact, overflow_checks) ==
    IF fits_i128(exact) THEN Wide(exact)
    ELSE IF overflow_checks THEN WidePanic
    ELSE [panic |-> FALSE, v |-> wrap_i128(exact), wrapped |-> TRUE]

\* x * 10 stays far inside the model checker's integers for every i128 x
RECURSIVE pow10(_, _)
\* 10i128.pow(exp)
pow10(exp, overflow_checks) ==
    IF exp = 0 THEN Wide(1)
    ELSE LET p == pow10(exp - 1, overflow_checks) IN
         IF p.panic THEN WidePanic
         ELSE LET q == Unchecked(p.v * 10, overflow_checks) IN
              IF q.panic THEN WidePanic
              ELSE [q EXCEPT !.wrapped = p.wrapped \/ q.wrapped]

\* a * b of two i128 without leaving the model checker's integers: TRUE iff
\* the exact product is representable
mul_fits(a, b) ==
    \/ a = 0
    \/ b = 0
    \/ /\ Abs(b) <= (i128_MAX + 1) \div Abs(a)
       /\ fits_i128(a * b)

RECURSIVE mul_mod(_, _)
\* a * b modulo 2^WideBits by doubling, b >= 0
mul_mod(a, b) ==
    IF b = 0 THEN 0
    ELSE LET h == mul_mod(a, b \div 2)
             d == wrap_i128(2 * h)
         IN  IF b % 2 = 1 THEN wrap_i128(d + a) ELSE d

\* the unchecked a * b
mul(a, b, overflow_checks) ==
    IF mul_fits(a, b) THEN Wide(a * b)
    ELSE IF overflow_checks THEN WidePanic
    ELSE [panic |-> FALSE,
          v |-> IF b >= 0 THEN mul_mod(a, b)
                ELSE wrap_i128(-mul_mod(a, -b)),
          wrapped |-> TRUE]

\* value.checked_mul(factor): None on overflow
checked_mul(a, b) ==
    IF mul_fits(a, b) THEN [some |-> TRUE, v |-> a * b]
    ELSE [some |-> FALSE, v |-> 0]

\* the result of the range check that ends every branch
range_checked(n, wrapped) ==
    IF n < i64_MIN \/ n > i64_MAX
    THEN (IF wrapped THEN NoneWrapped ELSE None)
    ELSE (IF wrapped THEN SomeWrapped(n) ELSE Some(n))

from_scaled_i128_half_up(value, scale, overflow_checks) ==
    IF scale = TARGET_DECIMALS THEN range_checked(value, FALSE)
    ELSE IF scale < TARGET_DECIMALS
    THEN LET factor == pow10(TARGET_DECIMALS - scale, overflow_checks).v
             widened == checked_mul(value, factor)
         IN  IF ~widened.some THEN None ELSE range_checked(widened.v, FALSE)
    ELSE LET f == pow10(scale - TARGET_DECIMALS, overflow_checks) IN
         IF f.panic \/ f.v = 0 THEN Panic
         ELSE LET factor == f.v
                  div == TruncDiv(value, Abs(factor)) * (IF factor < 0 THEN -1 ELSE 1)
                  rem == TruncRem(value, Abs(factor))
                  half == TruncDiv(factor, 2)
                  abs_rem == Abs(rem)
                  adjusted == IF rem # 0 /\ abs_rem >= half
                              THEN div + (IF value < 0 THEN -1 ELSE 1)
                              ELSE div
              IN  range_checked(adjusted, f.wrapped)

from_scaled_i128(value, scale, overflow_checks) ==
    IF scale = TARGET_DECIMALS THEN range_checked(value, FALSE)
    ELSE IF scale < TARGET_DECIMALS
    THEN LET factor == pow10(TARGET_DECIMALS - scale, overflow_checks).v
             widened == checked_mul(value, factor)
         IN  IF ~widened.some THEN None ELSE range_checked(widened.v, FALSE)
    ELSE LET f == pow10(scale - TARGET_DECIMALS, overflow_checks) IN
         \* a factor wrapped to 0 makes value / factor panic in any profile
         IF f.panic \/ f.v = 0 THEN Panic
         ELSE LET factor == f.v
                  div == TruncDiv(value, Abs(factor)) * (IF factor < 0 THEN -1 ELSE 1)
                  rem == TruncRem(value, Abs(factor))
                  half == TruncDiv(factor, 2)
                  abs_rem == Abs(rem)
                  adjusted ==
                      IF rem = 0 THEN div
                      ELSE IF abs_rem > half
                      THEN div + (IF value < 0 THEN -1 ELSE 1)
                      ELSE IF abs_rem = half /\ div % 2 # 0
                      THEN div + (IF value < 0 THEN -1 ELSE 1)
                      ELSE div
              IN  range_checked(adjusted, f.wrapped)

\* the characters of a text are one-character strings
DigitChars == <<"0", "1", "2", "3", "4", "5", "6", "7", "8", "9">>
IsDigit(ch) == \E d \in 1..10 : DigitChars[d] = ch
DigitValue(ch) == (CHOOSE d \in 1..10 : DigitChars[d] = ch) - 1

RECURSIVE ToDigits(_)
\* the decimal digits of n >= 0
ToDigits(n) ==
    IF n < 10 THEN <<DigitChars[n + 1]>>
    ELSE ToDigits(n \div 10) \o <<DigitChars[(n % 10) + 1]>>

RECURSIVE ZeroPad(_, _)
ZeroPad(digits, width) ==
    IF Len(digits) >= width THEN digits ELSE ZeroPad(<<"0">> \o digits, width)

\* "{}" of an integer
FormatInt(n) == IF n < 0 THEN <<"-">> \o ToDigits(-n) ELSE ToDigits(n)

\* "{:04}" of an integer: zero padding to width 4, the sign counted in
FormatInt04(n) ==
    IF n < 0 THEN <<"-">> \o ZeroPad(ToDigits(-n), 3) ELSE ZeroPad(ToDigits(n), 4)

\* impl Display for Money; minor.abs() of i64::MIN overflows
Display_fmt(minor, overflow_checks) ==
    IF minor = i64_MIN /\ overflow_checks THEN Panic
    ELSE LET neg == minor < 0
             abs == IF minor = i64_MIN THEN wrap_i64(-minor) ELSE Abs(minor)
             int_part == TruncDiv(abs, SCALE)
             frac_part == TruncRem(abs, SCALE)
             body == FormatInt(int_part) \o <<".">> \o FormatInt04(frac_part)
         IN  Text(IF neg THEN <<"-">> \o body ELSE body, minor = i64_MIN)

RECURSIVE ParseDigits(_, _, _)
\* the digit loop of i128::from_str: acc * 10 +/- digit with checked
\* arithmetic; sign is 1 or -1
ParseDigits(digits, acc, sign) ==
    IF digits = <<>> THEN [ok |-> TRUE, v |-> acc]
    ELSE IF ~IsDigit(Head(digits)) THEN [ok |-> FALSE, v |-> 0]
    ELSE LET next == acc * 10 + sign * DigitValue(Head(digits)) IN
         IF ~fits_i128(next) THEN [ok |-> FALSE, v |-> 0]
         ELSE ParseDigits(Tail(digits), next, sign)

\* str::parse::<i128>(): an optional sign, then at least one digit
parse_i128(src) ==
    IF src = <<>> THEN [ok |-> FALSE, v |-> 0]
    ELSE IF Head(src) \in {"-", "+"}
    THEN (IF Tail(src) = <<>> THEN [ok |-> FALSE, v |-> 0]
          ELSE ParseDigits(Tail(src), 0, IF Head(src) = "-" THEN -1 ELSE 1))
    ELSE ParseDigits(src, 0, 1)

RECURSIVE trim_start(_)
trim_start(src) ==
    IF src # <<>> /\ Head(src) = " " THEN trim_start(Tail(src)) ELSE src

RECURSIVE trim_end(_)
trim_end(src) ==
    IF src # <<>> /\ src[Len(src)] = " "
    THEN trim_end(SubSeq(src, 1, Len(src) - 1)) ELSE src

trim(src) == trim_end(trim_start(src))

RECURSIVE trim_start_matches_minus(_)
\* s.trim_start_matches('-'): every leading '-' is removed
trim_start_matches_minus(src) ==
    IF src # <<>> /\ Head(src) = "-"
    THEN trim_start_matches_minus(Tail(src)) ELSE src

\* the index of the first '.', 0 when there is none
FirstDot(src) ==
    IF \E i \in 1..Len(src) : src[i] = "."
    THEN CHOOSE i \in 1..Len(src) :
            src[i] = "." /\ \A j \in 1..(i - 1) : src[j] # "."
    ELSE 0

\* the result of from_scaled_i128, remembering an earlier wrap-around
after_wrap(res, wrapped) == [res EXCEPT !.wrapped = @ \/ wrapped]

from_decimal_str(text, overflow_checks) ==
    LET s == trim(text) IN
    IF s = <<>> THEN None
    ELSE
    LET neg == Head(s) = "-"
        body == trim_start_matches_minus(s)
        d1 == FirstDot(body)
        int_part == IF d1 = 0 THEN body ELSE SubSeq(body, 1, d1 - 1)
        int_val == parse_i128(int_part)
        frac == IF d1 = 0 THEN <<>> ELSE SubSeq(body, d1 + 1, Len(body))
        d2 == FirstDot(frac)
        frac_part == IF d2 = 0 THEN frac ELSE SubSeq(frac, 1, d2 - 1)
    IN  IF int_part = <<>> THEN None
        ELSE IF ~int_val.ok THEN None
        ELSE IF d2 # 0 THEN None
        ELSE IF frac_part = <<>>
        THEN LET signed == Unchecked(IF neg THEN -int_val.v ELSE int_val.v,
                                     overflow_checks)
             IN  IF signed.panic THEN Panic
                 ELSE after_wrap(from_scaled_i128(signed.v, 0, overflow_checks),
                                 signed.wrapped)
        ELSE LET p == pow10(Len(frac_part), overflow_checks) IN
             IF p.panic THEN Panic
             ELSE LET m == mul(int_val.v, p.v, overflow_checks) IN
             IF m.panic THEN Panic
             ELSE LET fr == parse_i128(frac_part) IN
             IF ~fr.ok THEN after_wrap(None, p.wrapped \/ m.wrapped)
             ELSE LET raw == Unchecked(m.v + fr.v, overflow_checks) IN
             IF raw.panic THEN Panic
             ELSE LET signed == Unchecked(IF neg THEN -raw.v ELSE raw.v,
                                          overflow_checks)
             IN  IF signed.panic THEN Panic
                 ELSE after_wrap(
                        from_scaled_i128(signed.v, Len(frac_part), overflow_checks),
                        p.wrapped \/ m.wrapped \/ raw.wrapped \/ signed.wrapped)

(* -------------------------- state machine ------------------------------ *)
Repo == [accounts |-> accounts, ledger |-> ledger]

\* no CSV reader is involved: the engine's items come from any stream
IngestionIdle ==
    /\ source = <<>>
    /\ reader = NoReader
    /\ streams = <<>>
    /\ delivered = <<>>

MoneyCall(fn, value, scale, text, overflow_checks) ==
    [fn |-> fn, value |-> value, scale |-> scale, text |-> text,
     checks |-> overflow_checks]

NoCall == MoneyCall("none", 0, 0, <<>>, FALSE)
NoRet == [tag |-> "none", value |-> 0, text |-> <<>>, wrapped |-> FALSE]

\* no function of money.rs has been called
MoneyIdle ==
    /\ call = NoCall
    /\ ret = NoRet

EngineInit ==
    /\ accounts = StdOutOutput_new.accounts
    /\ ledger = StdOutOutput_new.ledger
    /\ pc = "running"
    /\ consumed = 0
    /\ prev = StdOutOutput_new
    /\ last = [item |-> NoItem, res |-> "None", reports |-> 0]

Init == EngineInit /\ IngestionIdle /\ MoneyIdle

ProcessTx_abort_on_error(tx) ==
    LET r == apply_transaction(Repo, tx) IN
    /\ pc = "running"
    /\ consumed < MaxItems
    /\ accounts' = r.repo.accounts
    /\ ledger' = r.repo.ledger
    /\ prev' = Repo
    /\ last' = [item |-> tx, res |-> r.res,
                reports |-> IF r.res = "Ok" THEN 0 ELSE 1]
    /\ consumed' = consumed + 1
    /\ pc' = IF r.res = "Ok" THEN pc ELSE "failed"
    /\ UNCHANGED <<ingestion_vars, money_vars>>

\* one iteration of the loop of Engine::process on an Ok(tx) item
ProcessTx(tx) ==
    LET r == apply_transaction(Repo, tx) IN
    /\ pc = "running"
    /\ consumed < MaxItems
    /\ accounts' = r.repo.accounts
    /\ ledger' = r.repo.ledger
    /\ prev' = Repo
    /\ last' = [item |-> tx, res |-> r.res,
                reports |-> IF r.res = "Ok" THEN 0 ELSE 1]
    /\ consumed' = consumed + 1
    /\ pc' = pc
    /\ UNCHANGED <<ingestion_vars, money_vars>>

ProcessDeposit ==
    \E c \in Clients, t \in TxIds, a \in Amounts :
        ProcessTx(Transaction("Deposit", c, t, a))

ProcessWithdrawal ==
    \E c \in Clients, t \in TxIds, a \in Amounts :
        ProcessTx(Transaction("Withdrawal", c, t, a))

ProcessDispute ==
    \E c \in Clients, t \in TxIds : ProcessTx(Transaction("Dispute", c, t, 0))

ProcessResolve ==
    \E c \in Clients, t \in TxIds : ProcessTx(Transaction("Resolve", c, t, 0))

ProcessChargeback ==
    \E c \in Clients, t \in TxIds : ProcessTx(Transaction("Chargeback", c, t, 0))

ProcessIngestError_silent ==
    /\ pc = "running"
    /\ consumed < MaxItems
    /\ prev' = Repo
    /\ last' = [item |-> IngestErrorItem, res |-> "IngestionError", reports |-> 0]
    /\ consumed' = consumed + 1
    /\ UNCHANGED <<accounts, ledger, pc>>
    /\ UNCHANGED <<ingestion_vars, money_vars>>

\* one iteration of the loop on an Err(e) item: reported, nothing else
ProcessIngestError ==
    /\ pc = "running"
    /\ consumed < MaxItems
    /\ prev' = Repo
    /\ last' = [item |-> IngestErrorItem, res |-> "IngestionError", reports |-> 1]
    /\ consumed' = consumed + 1
    /\ UNCHANGED <<accounts, ledger, pc>>
    /\ UNCHANGED <<ingestion_vars, money_vars>>

\* the stream yields None: the loop is left and process returns Ok(())
StreamEnd ==
    /\ pc = "running"
    /\ pc' = "done"
    /\ UNCHANGED <<accounts, ledger, consumed, prev, last>>
    /\ UNCHANGED <<ingestion_vars, money_vars>>

Next ==
    \/ ProcessDeposit
    \/ ProcessWithdrawal
    \/ ProcessDispute
    \/ ProcessResolve
    \/ ProcessChargeback
    \/ ProcessIngestError
    \/ StreamEnd

Spec == Init /\ [][Next]_vars

\* Engine::process on a stream of at most MaxStreamLen items.  The loop is
\* sequential and polls a ready stream, so an iteration that can run does run.
StreamHasMore == consumed < MaxStreamLen

FairNext ==
    \/ StreamHasMore /\ ProcessDeposit
    \/ StreamHasMore /\ ProcessWithdrawal
    \/ StreamHasMore /\ ProcessDispute
    \/ StreamHasMore /\ ProcessResolve
    \/ StreamHasMore /\ ProcessChargeback
    \/ StreamHasMore /\ ProcessIngestError
    \/ StreamEnd

FairSpec == Init /\ [][FairNext]_vars /\ WF_vars(FairNext)

(* --------------------- the CSV reader as a machine --------------------- *)
RECURSIVE SeqsUpTo(_, _)
\* all sequences over S of length at most n
SeqsUpTo(S, n) ==
    IF n = 0 THEN {<<>>}
    ELSE LET shorter == SeqsUpTo(S, n - 1)
         IN  shorter \cup {Append(q, x) : q \in shorter, x \in S}

\* CsvReader::new over a file of at most MaxRows lines
IngestInit ==
    /\ EngineInit
    /\ source \in SeqsUpTo(CsvRecords, MaxRows)
    /\ reader = SomeReader(source)
    /\ streams = <<>>
    /\ delivered = <<>>
    /\ MoneyIdle

\* CsvReader::stream: the new stream owns the lines of the reader taken
StreamCall ==
    LET t == take(reader) IN
    /\ Len(streams) < MaxStreamCalls
    /\ reader' = t.left
    /\ streams' = Append(streams, IF t.taken.some THEN t.taken.rows ELSE <<>>)
    /\ UNCHANGED <<source, delivered>>
    /\ UNCHANGED <<engine_vars, money_vars>>

\* next() on one of the streams handed out: the next line, converted
StreamPoll ==
    \E i \in 1..Len(streams) :
        /\ streams[i] # <<>>
        /\ delivered' = Append(delivered,
                               [stream |-> i, item |-> map_row(Head(streams[i]))])
        /\ streams' = [streams EXCEPT ![i] = Tail(@)]
        /\ UNCHANGED <<source, reader>>
        /\ UNCHANGED <<engine_vars, money_vars>>

IngestNext == StreamCall \/ StreamPoll

IngestSpec == IngestInit /\ [][IngestNext]_vars

(* ----------------------- domain/money.rs as a machine ------------------ *)
\* the arguments of the calls
ScaledValues ==
    (-MaxValue..MaxValue)
    \cup {123445, 123455, -123445, -123455}
    \cup {i64_MIN - 1, i64_MIN, i64_MAX, i64_MAX + 1,
          10 * i64_MAX + 4, 10 * i64_MAX + 5, 10 * i64_MIN - 5, 10 * i64_MIN - 6,
          i128_MIN, i128_MAX}

Scales == 0..MaxScale

MoneyValues == i64_MIN..i64_MAX

TextChars == {"-", "+", ".", "1", "5", " ", "x"}

DecimalTexts ==
    SeqsUpTo(TextChars, MaxTextLen)
    \cup {FormatInt(i128_MAX), FormatInt(i128_MAX) \o <<".", "5">>,
          <<"-">> \o FormatInt(i128_MAX) \o <<".", "5">>,
          FormatInt(i128_MAX + 1),
          <<"0", ".">> \o ZeroPad(<<"1">>, WideBits)}


\* nothing of the engine or the reader runs while Money is exercised; the
\* arguments of the call are drawn when the machine starts
MoneyInit ==
    /\ EngineInit
    /\ IngestionIdle
    /\ ret = NoRet
    /\ \/ \E value \in ScaledValues, scale \in Scales, overflow_checks \in BOOLEAN :
             call = MoneyCall("from_scaled_i128", value, scale, <<>>, overflow_checks)
       \/ \E text \in DecimalTexts, overflow_checks \in BOOLEAN :
             call = MoneyCall("from_decimal_str", 0, 0, text, overflow_checks)
       \/ \E minor \in MoneyValues, overflow_checks \in BOOLEAN :
             call = MoneyCall("fmt", minor, 0, <<>>, overflow_checks)

\* Money::from_scaled_i128(value, scale)
CallFromScaled ==
    /\ call.fn = "from_scaled_i128"
    /\ ret = NoRet
    /\ ret' = from_scaled_i128(call.value, call.scale, call.checks)
    /\ UNCHANGED <<call, engine_vars, ingestion_vars>>

\* Money::from_decimal_str(text)
CallFromDecimalStr ==
    /\ call.fn = "from_decimal_str"
    /\ ret = NoRet
    /\ ret' = from_decimal_str(call.text, call.checks)
    /\ UNCHANGED <<call, engine_vars, ingestion_vars>>

\* format!("{}", Money(minor))
CallFmt ==
    /\ call.fn = "fmt"
    /\ ret = NoRet
    /\ ret' = Display_fmt(call.value, call.checks)
    /\ UNCHANGED <<call, engine_vars, ingestion_vars>>

\* Money::from_decimal_str of the text just written by Display, in the same
\* build; call.value keeps the value that was formatted
CallParseFormatted ==
    /\ call.fn = "fmt"
    /\ ret.tag = "Text"
    /\ call' = MoneyCall("parse_formatted", call.value, 0, ret.text, call.checks)
    /\ ret' = from_decimal_str(ret.text, call.checks)
    /\ UNCHANGED <<engine_vars, ingestion_vars>>

MoneyNext ==
    \/ CallFromScaled
    \/ CallFromDecimalStr
    \/ CallFmt
    \/ CallParseFormatted

MoneySpec == MoneyInit /\ [][MoneyNext]_vars

(* ------------------------- reading the history ------------------------- *)
\* prev is the repository before the last item; last is that item, its
\* result and the number of dlq.report calls it caused
LastIsTx == last.item.kind \in MonetaryKinds \cup ReferenceKinds
LastClient == last.item.client_id
LastTxId == last.item.transaction_id
Applied == LastIsTx /\ last.res = "Ok"
Rejected == LastIsTx /\ last.res # "Ok"

\* the account of a client; a client never referenced has the zeroed account
AccountOf(repo, c) ==
    IF c \in DOMAIN repo.accounts THEN repo.accounts[c] ELSE Account_new

BalancesUnchanged == \A c \in Clients : AccountOf(Repo, c) = AccountOf(prev, c)

LockedBefore(c) == AccountOf(prev, c).locked

\* the ledger of repo has an entry for t and it is flagged disputed
FlaggedDisputed(repo, t) == t \in DOMAIN repo.ledger /\ repo.ledger[t].disputed

(* ------------------------------- claims -------------------------------- *)

\* C1: for every account, after every processed item, the stored total
\* equals available + held.
C1_TotalIsAvailablePlusHeld ==
    \A c \in DOMAIN accounts :
        accounts[c].total = accounts[c].available + accounts[c].held

\* a dispute, resolve or chargeback (none of which recomputes total) has just
\* moved a non-zero amount
C1_Witness ==
    /\ Applied
    /\ last.item.kind \in ReferenceKinds
    /\ AccountOf(Repo, LastClient).held # AccountOf(prev, LastClient).held

\* C2: a rejected transaction leaves the state exactly as before: no balance,
\* lock, ledger entry or disputed flag is added or changed.
C2_RejectedLeavesNoTrace ==
    Rejected => (ledger = prev.ledger /\ BalancesUnchanged)

\* C3: every transaction of a locked client is rejected with the
\* account-locked error and changes no account and no ledger entry.
C3_LockedAccountRejectsAll ==
    (LastIsTx /\ LockedBefore(LastClient)) =>
        /\ last.res = "AccountLocked"
        /\ accounts = prev.accounts
        /\ ledger = prev.ledger

C3_Witness ==
    /\ LastIsTx
    /\ LockedBefore(LastClient)
    /\ last.res = "AccountLocked"

\* C4 as stated: a successful Chargeback of amount amt decreases held by amt,
\* leaves available unchanged (total decreases by amt) and locks the account.
C4_ChargebackIsClawback ==
    (Applied /\ last.item.kind = "Chargeback") =>
        LET amt == prev.ledger[LastTxId].tx.amount
            before == AccountOf(prev, LastClient)
            after == AccountOf(Repo, LastClient)
        IN  /\ after.held = before.held - amt
            /\ after.available = before.available
            /\ after.total = before.total - amt
            /\ after.locked

\* C4 amended: a successful Chargeback of amount amt decreases held by amt,
\* credits available by amt, leaves total unchanged and locks the account.
C4_ChargebackCreditsAvailable ==
    (Applied /\ last.item.kind = "Chargeback") =>
        LET amt == prev.ledger[LastTxId].tx.amount
            before == AccountOf(prev, LastClient)
            after == AccountOf(Repo, LastClient)
        IN  /\ prev.ledger[LastTxId].disputed
            /\ after.held = before.held - amt
            /\ after.available = before.available + amt
            /\ after.total = before.total
            /\ after.locked

C4_Witness ==
    /\ Applied
    /\ last.item.kind = "Chargeback"
    /\ prev.ledger[LastTxId].tx.amount > 0
    /\ AccountOf(Repo, LastClient).locked

\* the account and the ledger entry are as Deposit(a) with id t leaves them
\* for a client that had no account
AsAfterFreshDeposit(repo, c, t, a) ==
    LET r == apply_transaction(StdOutOutput_new, Transaction("Deposit", c, t, a)).repo
    IN  /\ c \in DOMAIN repo.accounts
        /\ t \in DOMAIN repo.ledger
        /\ repo.accounts[c] = r.accounts[c]
        /\ repo.ledger[t] = r.ledger[t]

\* C5: Deposit(a) for a fresh client, Dispute of it, Chargeback of it leaves
\* the account locked with available = a, held = 0, total = a; in general a
\* successful Chargeback moves the amount from held to available and leaves
\* total unchanged.
C5_DepositDisputeChargeback ==
    [][/\ (/\ consumed' = consumed + 1
           /\ last.res = "Ok"
           /\ last.item.kind = "Dispute"
           /\ last'.res = "Ok"
           /\ last'.item = Transaction("Chargeback", LastClient, LastTxId, 0)
           /\ \E a \in Amounts : AsAfterFreshDeposit(prev, LastClient, LastTxId, a))
          => accounts'[LastClient] =
                [available |-> ledger[LastTxId].tx.amount, held |-> 0,
                 total |-> ledger[LastTxId].tx.amount, locked |-> TRUE]
       /\ (consumed' = consumed + 1 /\ last'.res = "Ok" /\ last'.item.kind = "Chargeback")
          => LET c == last'.item.client_id
                 amt == ledger[last'.item.transaction_id].tx.amount
             IN  /\ accounts'[c].available - amt = accounts[c].available
                 /\ accounts'[c].held + amt = accounts[c].held
                 /\ accounts'[c].total = accounts[c].total
      ]_vars

\* the engine has processed exactly Deposit(a), Dispute, Chargeback with a > 0
C5_Witness ==
    /\ consumed = 3
    /\ Applied
    /\ last.item.kind = "Chargeback"
    /\ prev.ledger[LastTxId].tx.kind = "Deposit"
    /\ prev.ledger[LastTxId].tx.amount > 0
    /\ accounts[LastClient] =
          [available |-> prev.ledger[LastTxId].tx.amount, held |-> 0,
           total |-> prev.ledger[LastTxId].tx.amount, locked |-> TRUE]

\* C6: Resolve and Chargeback succeed only on an entry currently flagged
\* disputed; on any other entry each is rejected and changes no balance, no
\* lock and no disputed flag.
C6_ResolveChargebackNeedDispute ==
    (LastIsTx /\ last.item.kind \in {"Resolve", "Chargeback"}) =>
        /\ last.res = "Ok" => FlaggedDisputed(prev, LastTxId)
        /\ ~FlaggedDisputed(prev, LastTxId) =>
              /\ last.res # "Ok"
              /\ ledger = prev.ledger
              /\ BalancesUnchanged

\* a Resolve or Chargeback of an existing, undisputed entry was rejected
C6_Witness ==
    /\ LastIsTx
    /\ last.item.kind \in {"Resolve", "Chargeback"}
    /\ LastTxId \in DOMAIN prev.ledger
    /\ ~prev.ledger[LastTxId].disputed
    /\ prev.ledger[LastTxId].tx.client_id = LastClient
    /\ last.res = "NotDisputed"

\* C7: a successful Dispute directly followed by a successful Resolve of the
\* same transaction restores available and held to their pre-dispute values
\* and clears the flag; a Resolve directly after a successful Resolve of the
\* same transaction is rejected as not disputed.
C7_DisputeResolveLifecycle ==
    [][/\ (/\ consumed' = consumed + 1
           /\ last.res = "Ok"
           /\ last.item.kind = "Dispute"
           /\ last'.res = "Ok"
           /\ last'.item = Transaction("Resolve", LastClient, LastTxId, 0))
          => /\ accounts'[LastClient].available = AccountOf(prev, LastClient).available
             /\ accounts'[LastClient].held = AccountOf(prev, LastClient).held
             /\ ~ledger'[LastTxId].disputed
       /\ (/\ consumed' = consumed + 1
           /\ last.res = "Ok"
           /\ last.item.kind = "Resolve"
           /\ last'.item = Transaction("Resolve", LastClient, LastTxId, 0))
          => /\ last'.res = "NotDisputed"
             /\ accounts' = accounts
             /\ ledger' = ledger
      ]_vars

\* the engine has processed exactly Deposit(a) with a > 0, its Dispute and its
\* Resolve: the account is back at (a, 0) and the flag is cleared
C7_Witness ==
    /\ consumed = 3
    /\ Applied
    /\ last.item.kind = "Resolve"
    /\ prev.ledger[LastTxId].disputed
    /\ ~ledger[LastTxId].disputed
    /\ ledger[LastTxId].tx.kind = "Deposit"
    /\ ledger[LastTxId].tx.amount > 0
    /\ prev.accounts[LastClient].held = ledger[LastTxId].tx.amount
    /\ accounts[LastClient].held = 0
    /\ accounts[LastClient].available = ledger[LastTxId].tx.amount

\* C8: a Dispute that references a ledger entry of the same (unlocked) client
\* with amount amt succeeds, marks the entry disputed and changes the account
\* by exactly available -= amt, held += amt, total unchanged.
C8_DisputeHoldsAmount ==
    (/\ LastIsTx
     /\ last.item.kind = "Dispute"
     /\ ~LockedBefore(LastClient)
     /\ LastTxId \in DOMAIN prev.ledger
     /\ prev.ledger[LastTxId].tx.client_id = LastClient) =>
        LET amt == prev.ledger[LastTxId].tx.amount
            before == AccountOf(prev, LastClient)
            after == AccountOf(Repo, LastClient)
        IN  /\ last.res = "Ok"
            /\ ledger[LastTxId].disputed
            /\ ledger[LastTxId].tx = prev.ledger[LastTxId].tx
            /\ after.available = before.available - amt
            /\ after.held = before.held + amt
            /\ after.total = before.total
            /\ after.locked = before.locked

C8_Witness ==
    /\ Applied
    /\ last.item.kind = "Dispute"
    /\ prev.ledger[LastTxId].tx.amount > 0
    /\ ~prev.ledger[LastTxId].disputed
    /\ ledger[LastTxId].disputed
    /\ accounts[LastClient].held = prev.ledger[LastTxId].tx.amount

\* C9: a Dispute whose id is not in the ledger, or whose client differs from
\* the client of the referenced entry, is rejected; every disputed flag and
\* every account's balances stay unchanged.
C9_BadDisputeRejected ==
    (/\ LastIsTx
     /\ last.item.kind = "Dispute"
     /\ \/ LastTxId \notin DOMAIN prev.ledger
        \/ prev.ledger[LastTxId].tx.client_id # LastClient) =>
        /\ last.res # "Ok"
        /\ ~LockedBefore(LastClient) =>
              last.res = IF LastTxId \in DOMAIN prev.ledger
                         THEN "ClientMismatch"
                         ELSE "UnknownReferencedTransaction"
        /\ ledger = prev.ledger
        /\ BalancesUnchanged

\* a Dispute by another client than the owner of an entry with a non-zero
\* amount was rejected
C9_Witness ==
    /\ last.item.kind = "Dispute"
    /\ last.res = "ClientMismatch"
    /\ prev.ledger[LastTxId].tx.amount # 0

C11_DepositCredits ==
    (/\ LastIsTx
     /\ last.item.kind = "Deposit"
     /\ ~LockedBefore(LastClient)
     /\ LastTxId \notin DOMAIN prev.ledger) =>
        LET amt == last.item.amount
            before == AccountOf(prev, LastClient)
            after == AccountOf(Repo, LastClient)
        IN  /\ last.res = "Ok"
            /\ LastTxId \in DOMAIN ledger
            /\ ledger[LastTxId] = [tx |-> last.item, disputed |-> FALSE]
            /\ after.available = before.available + amt
            /\ after.total = before.total + amt
            /\ after.held = before.held
            /\ after.locked = before.locked

C11_Witness ==
    /\ Applied
    /\ last.item.kind = "Deposit"
    /\ last.item.amount > 0
    /\ LastTxId \notin DOMAIN prev.ledger
    /\ accounts[LastClient].available = last.item.amount

\* C12: a Deposit or Withdrawal whose id is already in the ledger is rejected
\* with the duplicate-id error; the existing entry (transaction and disputed
\* flag) is not overwritten and no balance changes.
C12_DuplicateIdRejected ==
    (/\ LastIsTx
     /\ last.item.kind \in MonetaryKinds
     /\ ~LockedBefore(LastClient)
     /\ LastTxId \in DOMAIN prev.ledger) =>
        /\ last.res = "DuplicateTransactionId"
        /\ ledger = prev.ledger
        /\ BalancesUnchanged

\* a duplicate of a disputed entry, differing from the stored transaction,
\* was rejected
C12_Witness ==
    /\ last.item.kind \in MonetaryKinds
    /\ last.res = "DuplicateTransactionId"
    /\ prev.ledger[LastTxId].disputed
    /\ prev.ledger[LastTxId].tx # last.item

\* C13: of two Deposit/Withdrawal transactions with the same, new id applied
\* one after the other to unlocked accounts, the first mutates balances
\* successfully and the second is rejected with the duplicate-id error.
C13_ExactlyOneOfTwoApplied ==
    [][(/\ consumed' = consumed + 1
        /\ last.item.kind \in MonetaryKinds
        /\ last'.item.kind \in MonetaryKinds
        /\ last'.item.transaction_id = LastTxId
        /\ LastTxId \notin DOMAIN prev.ledger
        /\ ~LockedBefore(LastClient)
        /\ ~AccountOf(Repo, last'.item.client_id).locked)
       => /\ last.res = "Ok"
          /\ last'.res = "DuplicateTransactionId"
      ]_vars

\* C14: every ledger entry is a Deposit or Withdrawal that passed its
\* preconditions and whose effect was applied; Dispute, Resolve and
\* Chargeback insert nothing and no entry is removed.
C14_LedgerHoldsAppliedOnly ==
    /\ DOMAIN prev.ledger \subseteq DOMAIN ledger
    /\ \A t \in DOMAIN ledger \ DOMAIN prev.ledger :
          /\ last.item.kind \in MonetaryKinds
          /\ ledger[t].tx = last.item
          /\ last.res = "Ok"

\* C15: locked becomes true only through a successful Chargeback of that
\* client, and once true it is never set back to false.
C15_LockedOnlyByChargebackForever ==
    \A c \in Clients :
        /\ (AccountOf(Repo, c).locked /\ ~AccountOf(prev, c).locked) =>
              /\ Applied
              /\ last.item.kind = "Chargeback"
              /\ LastClient = c
        /\ AccountOf(prev, c).locked => AccountOf(Repo, c).locked

\* a Deposit or Withdrawal arrived for a locked client, which stays locked
C15_Witness ==
    /\ last.item.kind \in MonetaryKinds
    /\ LockedBefore(LastClient)
    /\ accounts[LastClient].locked

\* C16: a Resolve or Chargeback (unlocked client) of an unknown id is rejected
\* as unknown referenced transaction, of another client's entry as client
\* mismatch, and as not disputed only for an own entry that is not disputed.
C16_ReferenceErrorsDistinguished ==
    (/\ LastIsTx
     /\ last.item.kind \in {"Resolve", "Chargeback"}
     /\ ~LockedBefore(LastClient)) =>
        /\ LastTxId \notin DOMAIN prev.ledger =>
              last.res = "UnknownReferencedTransaction"
        /\ (/\ LastTxId \in DOMAIN prev.ledger
            /\ prev.ledger[LastTxId].tx.client_id # LastClient) =>
              last.res = "ClientMismatch"
        /\ last.res = "NotDisputed" =>
              /\ LastTxId \in DOMAIN prev.ledger
              /\ prev.ledger[LastTxId].tx.client_id = LastClient
              /\ ~prev.ledger[LastTxId].disputed

\* C17: process takes the items one at a time, goes on after an ingest error
\* or a rejected transaction, and eventually returns success.
C17_ProcessContinuesAndTerminates ==
    /\ [][/\ consumed' \in {consumed, consumed + 1}
          /\ consumed' = consumed + 1 => (pc = "running" /\ pc' = "running")
          /\ pc' # pc => (pc = "running" /\ pc' = "done")]_vars
    /\ <>(pc = "done")

\* process has returned success after a run whose last item was rejected
C17_Witness ==
    /\ pc = "done"
    /\ consumed >= 2
    /\ last.res # "Ok"
    /\ last.reports = 1

\* C18: an item causes exactly one report to the error sink when it is an
\* ingest error or a rejected transaction and none when it is applied; an
\* ingest-error item changes no account and no ledger entry.
C18_OneReportPerFailure ==
    /\ Rejected => last.reports = 1
    /\ Applied => last.reports = 0
    /\ last.item.kind = "IngestError" =>
          /\ last.res = "IngestionError"
          /\ last.reports = 1
          /\ accounts = prev.accounts
          /\ ledger = prev.ledger

\* an ingest error arrived when an account and a ledger entry existed
C18_Witness ==
    /\ last.item.kind = "IngestError"
    /\ last.reports = 1
    /\ DOMAIN ledger # {}
    /\ DOMAIN accounts # {}

\* C19: the source is not restartable: only the first call of stream() yields
\* rows, every later call yields an empty sequence, and every row is
\* delivered at most once, in file order.
C19_StreamNotRestartable ==
    /\ \A i \in 2..Len(streams) : streams[i] = <<>>
    /\ Len(delivered) <= Len(source)
    /\ \A k \in 1..Len(delivered) :
          /\ delivered[k].stream = 1
          /\ delivered[k].item = map_row(source[k])

\* stream() was called again after the first stream was consumed
C19_Witness ==
    /\ Len(streams) >= 2
    /\ Len(source) >= 1
    /\ Len(delivered) = Len(source)
    /\ ~reader.some

\* the rows the code turns into a Transaction, as the claim states them
WellFormedRow(rec) ==
    /\ rec.de_ok
    /\ \/ TrimLower(rec.kind) \in {"deposit", "withdrawal"} /\ rec.amount.some
       \/ TrimLower(rec.kind) \in {"dispute", "resolve", "chargeback"} /\ ~rec.amount.some

\* C20: a row becomes a Transaction exactly when its type is deposit or
\* withdrawal with an amount, or dispute, resolve or chargeback without one;
\* any other row yields an ingestion error for that row only, and the rows
\* after it are still delivered.
C20_RowBecomesTransaction ==
    /\ \A k \in 1..Len(delivered) :
          LET rec == source[k]
              it == delivered[k].item
          IN  /\ it.ok <=> WellFormedRow(rec)
              /\ it.ok =>
                    /\ it.tx.client_id = rec.client
                    /\ it.tx.transaction_id = rec.tx
                    /\ it.tx.kind \in MonetaryKinds <=> rec.amount.some
                    /\ rec.amount.some => it.tx.amount = rec.amount.value
              /\ ~it.ok => it.err \in {"Invalid transaction type",
                                       "CSV deserialization error"}
    /\ Len(streams) >= 1 =>
          streams[1] = SubSeq(source, Len(delivered) + 1, Len(source))

\* a dispute row with an amount gave an error and the row after it was
\* delivered as a transaction
C20_Witness ==
    /\ Len(delivered) = 2
    /\ source[1].kind = "dispute"
    /\ source[1].amount.some
    /\ ~delivered[1].item.ok
    /\ delivered[2].item.ok

\* C21: a deposit or withdrawal row with a negative amount is an ingestion
\* error, so every Deposit/Withdrawal handed to the engine carries a
\* non-negative amount.
C21_NegativeAmountIsIngestError ==
    \A k \in 1..Len(delivered) :
        LET rec == source[k]
            it == delivered[k].item
        IN  /\ (/\ rec.de_ok
                /\ TrimLower(rec.kind) \in {"deposit", "withdrawal"}
                /\ rec.amount.some
                /\ rec.amount.value < 0) => ~it.ok
            /\ (it.ok /\ it.tx.kind \in MonetaryKinds) => it.tx.amount >= 0

\* 10^n as a number
RECURSIVE TenTo(_)
TenTo(n) == IF n = 0 THEN 1 ELSE 10 * TenTo(n - 1)

\* the excess factor 10^(scale - 4) is representable in the intermediate type
FactorFits(scale) == scale - TARGET_DECIMALS < Len(ToDigits(i128_MAX))

\* r is value / f rounded half-to-even: no integer is nearer to value / f,
\* and r is even when value / f lies halfway between two integers
IsHalfEvenQuotient(r, value, f) ==
    /\ 2 * Abs(value - r * f) <= f
    /\ 2 * Abs(value - r * f) = f => r % 2 = 0

\* C22: for scale > 4, from_scaled_i128(value, scale) is value / 10^(scale-4)
\* rounded half-to-even (above half away from zero, below half toward zero,
\* a tie to the even neighbour, the same for negative values), and it is
\* None exactly when that quotient is outside the backing integer;
\* 123445@5 -> 1.2344, 123455@5 -> 1.2346, and their negatives.
C22_RoundsHalfToEven ==
    (/\ call.fn = "from_scaled_i128"
     /\ ret # NoRet
     /\ call.scale > TARGET_DECIMALS
     /\ FactorFits(call.scale)) =>
        LET f == TenTo(call.scale - TARGET_DECIMALS)
            down == call.value \div f
            r == IF IsHalfEvenQuotient(down, call.value, f) THEN down ELSE down + 1
            rem == Abs(call.value) % f
        IN  /\ IsHalfEvenQuotient(r, call.value, f)
            /\ ret.tag \in {"Some", "None"}
            /\ ret.tag = "Some" <=> (r >= i64_MIN /\ r <= i64_MAX)
            /\ ret.tag = "Some" =>
                  /\ ret.value = r
                  /\ 2 * rem > f => Abs(ret.value) = Abs(call.value) \div f + 1
                  /\ 2 * rem < f => Abs(ret.value) = Abs(call.value) \div f
                  /\ 2 * rem = f => ret.value % 2 = 0
                  /\ call.value < 0 => ret.value <= 0
                  /\ call.value > 0 => ret.value >= 0
            /\ (call.scale = 5 /\ call.value = 123445) => ret.value = 12344
            /\ (call.scale = 5 /\ call.value = 123455) => ret.value = 12346
            /\ (call.scale = 5 /\ call.value = -123445) => ret.value = -12344
            /\ (call.scale = 5 /\ call.value = -123455) => ret.value = -12346

\* a negative tie whose truncated quotient is odd was rounded away from zero
\* to the even neighbour
C22_Witness ==
    /\ call.fn = "from_scaled_i128"
    /\ call.scale = 5
    /\ call.value = -123455
    /\ ret.tag = "Some"
    /\ ret.value = -12346

\* C23: for every representable Money value x, parsing the text produced by
\* formatting x yields x again.
C23_ParseOfFormatIsIdentity ==
    /\ (call.fn = "fmt" /\ ret # NoRet) => ret.tag = "Text"
    /\ call.fn = "parse_formatted" => (ret.tag = "Some" /\ ret.value = call.value)

\* C24: from_scaled_i128 and from_decimal_str never wrap around: they return
\* a value only when the result fits the backing integer, and None whenever
\* an intermediate or the final result overflows.
C24_ConstructionNeverWraps ==
    (call.fn \in {"from_scaled_i128", "from_decimal_str"} /\ ret # NoRet) =>
        /\ ret.tag \in {"Some", "None"}
        /\ ret.tag = "Some" => (ret.value >= i64_MIN /\ ret.value <= i64_MAX)
        /\ ret.wrapped => ret.tag = "None"

RECURSIVE SumAmounts(_, _)
\* the sum of the amounts of the ledger entries with the ids in ids
SumAmounts(repo, ids) ==
    IF ids = {} THEN 0
    ELSE LET t == CHOOSE x \in ids : TRUE
         IN  repo.ledger[t].tx.amount + SumAmounts(repo, ids \ {t})

\* the ids of the entries of client c that are flagged disputed
OpenDisputes(repo, c) ==
    {t \in DOMAIN repo.ledger :
        repo.ledger[t].tx.client_id = c /\ repo.ledger[t].disputed}

\* C25: for every unlocked account, held equals the sum of the amounts of the
\* client's ledger entries currently flagged disputed (a second Dispute of a
\* disputed entry moves nothing; held is zero without an open dispute).
C25_HeldIsSumOfOpenDisputes ==
    \A c \in DOMAIN accounts :
        ~accounts[c].locked =>
            accounts[c].held = SumAmounts(Repo, OpenDisputes(Repo, c))

\* every entry of the ledger carries a non-negative amount
OnlyNonNegativeAmounts(repo) ==
    \A t \in DOMAIN repo.ledger : repo.ledger[t].tx.amount >= 0

\* no account of repo has a negative available balance
NoNegativeAvailable(repo) ==
    \A c \in DOMAIN repo.accounts : repo.accounts[c].available >= 0

C27_ClientIsolation ==
    LastIsTx =>
        /\ \A c \in Clients :
              c # LastClient =>
                  /\ (c \in DOMAIN accounts) = (c \in DOMAIN prev.accounts)
                  /\ c \in DOMAIN accounts => accounts[c] = prev.accounts[c]
        /\ \A t \in DOMAIN prev.ledger :
              prev.ledger[t].tx.client_id # LastClient =>
                  /\ t \in DOMAIN ledger
                  /\ ledger[t] = prev.ledger[t]

\* a Resolve or Chargeback by another client than the owner of a disputed
\* entry with funds held was rejected
C27_Witness ==
    /\ LastIsTx
    /\ last.item.kind \in {"Resolve", "Chargeback"}
    /\ last.res = "ClientMismatch"
    /\ prev.ledger[LastTxId].disputed
    /\ prev.ledger[LastTxId].tx.amount > 0
    /\ prev.accounts[prev.ledger[LastTxId].tx.client_id].held > 0

====
